---- MODULE Spec2Model ----
(***************************************************************************)
(* Model of dvob/http-server: the configuration parser (package config)   *)
(* and the middleware chain builder (middleware.go).                      *)
(*                                                                         *)
(* A byte is modelled as a one-character string, a Go string / []byte as  *)
(* a sequence of such characters.  The parser cursor `pos` is 0-based as  *)
(* in the source; sequences are 1-based, so input[pos] of the source is   *)
(* input[pos + 1] here.                                                   *)
(***************************************************************************)
EXTENDS Integers, Sequences, FiniteSets, TLC

VARIABLES
    \* ---- config.parser -------------------------------------------------
    input,        \* parser.input
    pos,          \* parser.pos
    pc,           \* position inside parse() / parseSettings()
    currentPath,  \* local of parse()
    word,         \* local of parse(): the word read at the top level
    ok,           \* local of parse(): the ok of the peek after the word
    mappings,     \* local of parse(): the routing table under construction
    key,          \* local of parseSettings()
    result,       \* local of parseSettings(): the mapping under construction
    ret,          \* what Parse returned (valid once pc = "done")
    \* ---- history variables (not in the source) ---------------------------
    cfg,          \* the declared configuration the input was rendered from
    iterPos,      \* cursor at which the item of the last loop iteration began
    ctrlAt,       \* 1-based offset of the first ':' ',' '}' met at a word start
    eofIn,        \* where the parser stood when it met the end of the input
    \* ---- chain builder and one request through the composed handler -----
    ms,           \* the middleware list handed to chain
    term,         \* the terminal handler handed to chain(...)
    composed,     \* the handler chain(ms...)(term) returned
    req,          \* the request being served
    stack,        \* handlers whose ServeHTTP is in progress, innermost last
    trace,        \* components in the order their logic started
    cpc,          \* position of the build / serve run
    calls,        \* per component of the composed handler: its calls of next
    \* ---- serverConfig.getHandler ----------------------------------------
    sMiddleware,  \* s.middleware split at ',' (<< >>: the flag is "")
    sHandler,     \* s.handler ("": the flag is not set)
    herr,         \* the error getHandler returned
    \* ---- one pipeline built twice, one request through each -------------
    builds,       \* per build: the handler, and the run of the request
    \* ---- nBytesReader and the Read calls made on it ----------------------
    sizeStr,      \* the `size` query parameter dataHandler was called with
    reader,       \* the nBytesReader: its fields n and sent
    out,          \* the bytes the Read calls delivered so far, in order
    rerr,         \* the error the last Read returned ("nil" or "EOF")
    plen,         \* len(p) of the last Read
    reads,        \* history: how many Read calls were made
    \* ---- concurrent invocations of one composed handler -----------------
    invs,         \* per invocation: its request, its response, its position
    accesses      \* history: which invocation read or wrote which variable

parserVars == <<input, pos, pc, currentPath, word, ok, mappings, key, result, ret>>
ghostVars == <<cfg, iterPos, ctrlAt, eofIn>>
flagVars == <<sMiddleware, sHandler, herr>>
readerVars == <<sizeStr, reader, out, rerr, plen, reads>>
concVars == <<invs, accesses>>
chainVars == <<ms, term, composed, req, stack, trace, cpc, calls, flagVars, builds,
               readerVars, concVars>>
vars == <<parserVars, ghostVars, chainVars>>

(***************************************************************************)
(* Bounds of the model                                                     *)
(***************************************************************************)
MaxLen == 4        \* longest arbitrary input string
MaxItems == 3      \* most items in a generated configuration
MaxSteps == 4      \* most steps a routing table is followed up to
MaxChain == 3      \* longest middleware list
MaxWsItems == 2    \* most items in a configuration rendered with whitespace
MaxSize == 7       \* largest |size| handed to newNBytesReader
MaxBuf == 3        \* longest buffer handed to Read
MaxReads == 7      \* most Read calls followed on a reader

(***************************************************************************)
(* Bytes                                                                   *)
(***************************************************************************)
QUOTE == "\""
NUL == "NUL"       \* the zero byte peek returns at the end of the input
Alphabet == {"a", "/", ":", ",", "{", "}", QUOTE, " ", "\r"}

\* skipSpace, line 56
IsSkippedSpace(c) == c = " " \/ c = "\n" \/ c = "\t"
\* unicode.IsSpace(rune(c)) for a byte (Latin-1 range), line 94
IsUnicodeSpace(c) == c \in {" ", "\t", "\n", "\r", "\f", "VT", "NEL", "NBSP"}
\* the control characters that end a naked string, line 97
IsNakedStop(c) == c = "," \/ c = "}" \/ c = "{" \/ c = ":"

(***************************************************************************)
(* Errors.  offset = 0: the message carries no offset.                     *)
(***************************************************************************)
NoError == [msg |-> "", offset |-> 0, got |-> "", expected |-> ""]
Error(msg, offset, got, expected) ==
    [msg |-> msg, offset |-> offset, got |-> got, expected |-> expected]

(***************************************************************************)
(* parser.peek / consume / skipSpace / read*                               *)
(***************************************************************************)
peek(inp, p) ==
    IF p >= Len(inp) THEN [c |-> NUL, ok |-> FALSE]
    ELSE [c |-> inp[p + 1], ok |-> TRUE]

consume(inp, p, chr) ==
    LET nx == peek(inp, p) IN
    IF ~nx.ok
    THEN [failed |-> TRUE, pos |-> p,
          err |-> Error("unexpected EOF. expected", 0, "", chr)]
    ELSE IF nx.c # chr
    THEN [failed |-> TRUE, pos |-> p,
          err |-> Error("unexpected at offset expected", p + 1, nx.c, chr)]
    ELSE [failed |-> FALSE, pos |-> p + 1, err |-> NoError]

\* input[lo:hi]: the bytes at 0-based offsets lo..hi-1; the slice panics
\* unless 0 <= lo <= hi <= len(input)
OutOfRange == <<"panic: slice bounds out of range">>
slice(inp, lo, hi) ==
    IF 0 <= lo /\ lo <= hi /\ hi <= Len(inp) THEN SubSeq(inp, lo + 1, hi)
    ELSE OutOfRange

\* skipSpace skipping the space byte only, not tabs and newlines
RECURSIVE skipSpaceBlanksOnly(_, _)
skipSpaceBlanksOnly(inp, p) ==
    LET nx == peek(inp, p) IN
    IF ~nx.ok THEN p
    ELSE IF nx.c = " " THEN skipSpaceBlanksOnly(inp, p + 1)
    ELSE p
RECURSIVE skipSpace(_, _)
skipSpace(inp, p) ==
    LET nx == peek(inp, p) IN
    IF ~nx.ok THEN p
    ELSE IF IsSkippedSpace(nx.c) THEN skipSpace(inp, p + 1)
    ELSE p

\* a quoted-string loop that also stops at the bytes that end a naked string
RECURSIVE quotedLoopStopsAtControl(_, _)
quotedLoopStopsAtControl(inp, p) ==
    LET nx == peek(inp, p) IN
    IF ~nx.ok THEN [eof |-> TRUE, pos |-> p]
    ELSE IF nx.c = QUOTE \/ IsNakedStop(nx.c) THEN [eof |-> FALSE, pos |-> p + 1]
    ELSE quotedLoopStopsAtControl(inp, p + 1)
\* the loop of readQuotedString, lines 72-83: the cursor after it, and whether
\* it left by the EOF return
RECURSIVE quotedLoop(_, _)
quotedLoop(inp, p) ==
    LET nx == peek(inp, p) IN
    IF ~nx.ok THEN [eof |-> TRUE, pos |-> p]
    ELSE IF nx.c = QUOTE THEN [eof |-> FALSE, pos |-> p + 1]
    ELSE quotedLoop(inp, p + 1)

\* readQuotedString slicing input[start:pos], closing quote included
readQuotedStringKeepsQuote(inp, p) ==
    LET c == consume(inp, p, QUOTE) IN
    IF c.failed
    THEN [failed |-> FALSE, v |-> <<>>, pos |-> p, err |-> NoError, eof |-> FALSE]
    ELSE LET start == c.pos
             l == quotedLoop(inp, start) IN
         IF l.eof
         THEN [failed |-> TRUE, v |-> <<>>, pos |-> l.pos, eof |-> TRUE,
               err |-> Error("unexpected EOF. end of string not found", 0, "", "")]
         ELSE [failed |-> FALSE, v |-> slice(inp, start, l.pos),
               pos |-> l.pos, err |-> NoError, eof |-> FALSE]

\* readQuotedString taking the end of the input for the closing quote
readQuotedStringToEof(inp, p) ==
    LET c == consume(inp, p, QUOTE) IN
    IF c.failed
    THEN [failed |-> FALSE, v |-> <<>>, pos |-> p, err |-> NoError, eof |-> FALSE]
    ELSE LET start == c.pos
             l == quotedLoop(inp, start) IN
         IF l.eof
         THEN [failed |-> FALSE, v |-> slice(inp, start, l.pos),
               pos |-> l.pos, err |-> NoError, eof |-> TRUE]
         ELSE [failed |-> FALSE, v |-> slice(inp, start, l.pos - 1),
               pos |-> l.pos, err |-> NoError, eof |-> FALSE]

\* readQuotedString, lines 64-85
readQuotedString(inp, p) ==
    LET c == consume(inp, p, QUOTE) IN
    IF c.failed
    THEN [failed |-> FALSE, v |-> <<>>, pos |-> p, err |-> NoError, eof |-> FALSE]
    ELSE LET start == c.pos
             l == quotedLoop(inp, start) IN
         IF l.eof
         THEN [failed |-> TRUE, v |-> <<>>, pos |-> l.pos, eof |-> TRUE,
               err |-> Error("unexpected EOF. end of string not found", 0, "", "")]
         ELSE [failed |-> FALSE, v |-> slice(inp, start, l.pos - 1),
               pos |-> l.pos, err |-> NoError, eof |-> FALSE]

RECURSIVE nakedLoop(_, _)
nakedLoop(inp, p) ==
    LET nx == peek(inp, p) IN
    IF ~nx.ok THEN p
    ELSE IF IsUnicodeSpace(nx.c) THEN p
    ELSE IF IsNakedStop(nx.c) THEN p
    ELSE nakedLoop(inp, p + 1)

\* readNakedString slicing one byte past the cursor
readNakedStringOnePast(inp, p) ==
    LET start == p
        e == nakedLoop(inp, p) IN
    [failed |-> FALSE, v |-> slice(inp, start, e + 1), pos |-> e,
     err |-> NoError, eof |-> FALSE]

\* readNakedString, lines 87-104: return string(p.input[start:p.pos])
readNakedString(inp, p) ==
    LET start == p
        e == nakedLoop(inp, p) IN
    [failed |-> FALSE, v |-> slice(inp, start, e), pos |-> e,
     err |-> NoError, eof |-> FALSE]

readWord(inp, p) ==
    LET nx == peek(inp, p) IN
    IF ~nx.ok
    THEN [failed |-> TRUE, v |-> <<>>, pos |-> p, eof |-> TRUE,
          err |-> Error("unexpected EOF. expected word", 0, "", "")]
    ELSE IF nx.c = QUOTE THEN readQuotedString(inp, p)
    ELSE readNakedString(inp, p)

\* strings.HasPrefix(word, "/")
HasPrefix(w, c) == Len(w) >= 1 /\ w[1] = c

(***************************************************************************)
(* Routing table: map[string][]HandlerConfig                               *)
(***************************************************************************)
EmptyMap == << >>
\* a step that carries an empty map where the source leaves Settings nil
EmptyMapSettings == [nil |-> FALSE, kv |-> EmptyMap]
NilSettings == [nil |-> TRUE, kv |-> EmptyMap]
MapSettings(m) == [nil |-> FALSE, kv |-> m]
HandlerConfig(name, settings) == [Name |-> name, Settings |-> settings]

\* m[k] of a Go map of slices: the nil slice when k is absent
Lookup(m, k) == IF k \in DOMAIN m THEN m[k] ELSE << >>

\* an assignment that keeps the value a key already has
MapPutKeepsFirst(m, k, v) ==
    [x \in (DOMAIN m) \cup {k} |-> IF x \in DOMAIN m THEN m[x] ELSE v]

\* m[k] = v
MapPut(m, k, v) == [x \in (DOMAIN m) \cup {k} |-> IF x = k THEN v ELSE m[x]]

\* a step appended under "/" whatever the current path
appendConfigAtRoot(m, path, config) ==
    MapPut(m, <<"/">>, Append(Lookup(m, <<"/">>), config))

\* an assignment that starts the path's sequence afresh
appendConfigReplaces(m, path, config) == MapPut(m, path, <<config>>)

\* mappings[currentPath] = append(mappings[currentPath], config), line 212
appendConfig(m, path, config) == MapPut(m, path, Append(Lookup(m, path), config))

RECURSIVE SumLen(_, _)
SumLen(m, ks) ==
    IF ks = {} THEN 0
    ELSE LET k == CHOOSE x \in ks : TRUE IN Len(m[k]) + SumLen(m, ks \ {k})
TotalSteps(m) == SumLen(m, DOMAIN m)

NilTable == [nil |-> TRUE, m |-> EmptyMap]
Table(m) == [nil |-> FALSE, m |-> m]
NotReturned == [table |-> NilTable, failed |-> FALSE, err |-> NoError]

\* return mappings, nil
returnTable(m) == [table |-> Table(m), failed |-> FALSE, err |-> NoError]
\* an error return that hands out the table built so far
returnErrorWithTable(m, e) == [table |-> Table(m), failed |-> TRUE, err |-> e]

\* return nil, err
returnError(m, e) == [table |-> NilTable, failed |-> TRUE, err |-> e]

(***************************************************************************)
(* parse(), lines 172-218, one action per call it makes.  Parse (line 14)  *)
(* starts it with pos = 0.                                                 *)
(***************************************************************************)
ParserStart(inp, c) ==
    /\ input = inp
    /\ cfg = c
    /\ pos = 0
    /\ pc = "loop"
    /\ currentPath = <<"/">>
    /\ word = << >>
    /\ ok = TRUE
    /\ mappings = EmptyMap
    /\ key = << >>
    /\ result = EmptyMap
    /\ ret = NotReturned
    /\ iterPos = -1
    /\ ctrlAt = 0
    /\ eofIn = "none"

\* history: the first ':' ',' '}' found where a word start is expected
IsControl(c) == c = ":" \/ c = "," \/ c = "}"
noteControl ==
    LET nx == peek(input, pos) IN
    IF ctrlAt = 0 /\ nx.ok /\ IsControl(nx.c) THEN pos + 1 ELSE ctrlAt

\* lines 177-181: skipSpace, then leave the loop at the end of the input
ParseLoopHead ==
    /\ pc = "loop"
    /\ LET p == skipSpace(input, pos) IN
       /\ pos' = p
       /\ IF ~peek(input, p).ok
          THEN /\ pc' = "done"
               /\ ret' = returnTable(mappings)
               /\ iterPos' = iterPos
          ELSE /\ pc' = "word"
               /\ ret' = ret
               /\ iterPos' = p
    /\ UNCHANGED <<input, currentPath, word, ok, mappings, key, result>>
    /\ UNCHANGED <<cfg, ctrlAt, eofIn>>
    /\ UNCHANGED chainVars

\* lines 183-190 and 199-201: readWord, then path or handler / middleware
ParseReadWord ==
    /\ pc = "word"
    /\ LET w == readWord(input, pos) IN
       /\ pos' = w.pos
       /\ eofIn' = IF w.eof THEN "quoted" ELSE eofIn
       /\ IF w.failed
          THEN /\ pc' = "done"
               /\ ret' = returnError(mappings, w.err)
               /\ UNCHANGED <<word, currentPath>>
          ELSE /\ word' = w.v
               /\ ret' = ret
               /\ IF HasPrefix(w.v, "/")
                  THEN currentPath' = w.v /\ pc' = "colon"
                  ELSE currentPath' = currentPath /\ pc' = "step"
    /\ ctrlAt' = noteControl
    /\ UNCHANGED <<input, ok, mappings, key, result>>
    /\ UNCHANGED <<cfg, iterPos>>
    /\ UNCHANGED chainVars

\* a path declaration that creates the path's (empty) entry at once
ParsePathColonMakesEntry ==
    /\ pc = "colon"
    /\ LET c == consume(input, pos, ":") IN
       /\ pos' = c.pos
       /\ eofIn' = IF ~peek(input, pos).ok THEN "path" ELSE eofIn
       /\ IF c.failed
          THEN /\ pc' = "done"
               /\ ret' = returnError(mappings,
                            Error("missing ':' after path at", pos + 1, "", ":"))
               /\ mappings' = mappings
          ELSE /\ pc' = "loop"
               /\ ret' = ret
               /\ mappings' = MapPut(mappings, currentPath, Lookup(mappings, currentPath))
    /\ UNCHANGED <<input, currentPath, word, ok, key, result>>
    /\ UNCHANGED <<cfg, iterPos, ctrlAt>>
    /\ UNCHANGED chainVars

\* lines 191-195: the ':' after a path
ParsePathColon ==
    /\ pc = "colon"
    /\ LET c == consume(input, pos, ":") IN
       /\ pos' = c.pos
       /\ eofIn' = IF ~peek(input, pos).ok THEN "path" ELSE eofIn
       /\ IF c.failed
          THEN /\ pc' = "done"
               /\ ret' = returnError(mappings,
                            Error("missing ':' after path at", pos + 1, "", ":"))
          ELSE /\ pc' = "loop"
               /\ ret' = ret
    /\ UNCHANGED <<input, currentPath, word, ok, mappings, key, result>>
    /\ UNCHANGED <<cfg, iterPos, ctrlAt>>
    /\ UNCHANGED chainVars

\* lines 203-215 for a step without a settings block; with c == '{' the
\* step is appended when parseSettings returns (ParseSettingsNext)
ParseStep ==
    /\ pc = "step"
    /\ LET nx == peek(input, pos) IN
       /\ ok' = nx.ok
       /\ IF nx.c = "{"
          THEN /\ pc' = "settings"
               /\ UNCHANGED <<mappings, ret>>
          ELSE /\ TotalSteps(mappings) < MaxSteps
               /\ mappings' = appendConfig(mappings, currentPath,
                                           HandlerConfig(word, NilSettings))
               /\ IF ~nx.ok
                  THEN pc' = "done" /\ ret' = returnTable(mappings')
                  ELSE pc' = "loop" /\ ret' = ret
    /\ UNCHANGED <<input, pos, currentPath, word, key, result>>
    /\ UNCHANGED ghostVars
    /\ UNCHANGED chainVars

\* a parseSettings that takes a '}' after the '{' as the end of the block
ParseSettingsOpenAcceptsEmpty ==
    /\ pc = "settings"
    /\ result' = EmptyMap
    /\ LET c == consume(input, pos, "{") IN
       IF c.failed
       THEN /\ pc' = "done"
            /\ pos' = c.pos
            /\ ret' = returnError(mappings, c.err)
       ELSE /\ pc' = IF peek(input, skipSpace(input, c.pos)).c = "}" THEN "next" ELSE "key"
            /\ pos' = skipSpace(input, c.pos)
            /\ ret' = ret
    /\ UNCHANGED <<input, currentPath, word, ok, mappings, key>>
    /\ UNCHANGED ghostVars
    /\ UNCHANGED chainVars

\* parseSettings lines 120-127: the fresh map, consume('{'), skipSpace
ParseSettingsOpen ==
    /\ pc = "settings"
    /\ result' = EmptyMap
    /\ LET c == consume(input, pos, "{") IN
       IF c.failed
       THEN /\ pc' = "done"
            /\ pos' = c.pos
            /\ ret' = returnError(mappings, c.err)
       ELSE /\ pc' = "key"
            /\ pos' = skipSpace(input, c.pos)
            /\ ret' = ret
    /\ UNCHANGED <<input, currentPath, word, ok, mappings, key>>
    /\ UNCHANGED ghostVars
    /\ UNCHANGED chainVars

\* lines 130-133: the key
ParseSettingsKey ==
    /\ pc = "key"
    /\ LET w == readWord(input, pos) IN
       /\ pos' = w.pos
       /\ eofIn' = IF w.eof THEN (IF peek(input, pos).ok THEN "quoted" ELSE "settings")
                   ELSE eofIn
       /\ IF w.failed
          THEN /\ pc' = "done"
               /\ ret' = returnError(mappings, [w.err EXCEPT !.msg = "failed to read key: " \o @])
               /\ key' = key
          ELSE /\ pc' = "colon2"
               /\ ret' = ret
               /\ key' = w.v
    /\ ctrlAt' = noteControl
    /\ UNCHANGED <<input, currentPath, word, ok, mappings, result>>
    /\ UNCHANGED <<cfg, iterPos>>
    /\ UNCHANGED chainVars

\* lines 135-140: the ':' after the key, then skipSpace
ParseSettingsColon ==
    /\ pc = "colon2"
    /\ LET c == consume(input, pos, ":") IN
       /\ eofIn' = IF ~peek(input, pos).ok THEN "settings" ELSE eofIn
       /\ IF c.failed
          THEN /\ pc' = "done"
               /\ pos' = c.pos
               /\ ret' = returnError(mappings, c.err)
          ELSE /\ pc' = "value"
               /\ pos' = skipSpace(input, c.pos)
               /\ ret' = ret
    /\ UNCHANGED <<input, currentPath, word, ok, mappings, key, result>>
    /\ UNCHANGED <<cfg, iterPos, ctrlAt>>
    /\ UNCHANGED chainVars

\* lines 141-147: the value, result[key] = value, skipSpace
ParseSettingsValue ==
    /\ pc = "value"
    /\ LET w == readWord(input, pos) IN
       /\ eofIn' = IF w.eof THEN (IF peek(input, pos).ok THEN "quoted" ELSE "settings")
                   ELSE eofIn
       /\ IF w.failed
          THEN /\ pc' = "done"
               /\ pos' = w.pos
               /\ ret' = returnError(mappings, [w.err EXCEPT !.msg = "failed to read value: " \o @])
               /\ result' = result
          ELSE /\ pc' = "next"
               /\ pos' = skipSpace(input, w.pos)
               /\ ret' = ret
               /\ result' = MapPut(result, key, w.v)
    /\ ctrlAt' = noteControl
    /\ UNCHANGED <<input, currentPath, word, ok, mappings, key>>
    /\ UNCHANGED <<cfg, iterPos>>
    /\ UNCHANGED chainVars

\* lines 149-164, and on return lines 205-215 of parse()
ParseSettingsNext ==
    /\ pc = "next"
    /\ LET nx == peek(input, pos) IN
       /\ eofIn' = IF ~nx.ok THEN "settings" ELSE eofIn
       /\ IF ~nx.ok
          THEN /\ pc' = "done"
               /\ pos' = pos
               /\ ret' = returnError(mappings,
                            Error("expected ',' or '}' at offset, got", pos + 1, nx.c, ""))
               /\ mappings' = mappings
          ELSE IF nx.c = "}"
          THEN /\ TotalSteps(mappings) < MaxSteps
               /\ pos' = pos + 1
               /\ mappings' = appendConfig(mappings, currentPath,
                                           HandlerConfig(word, MapSettings(result)))
               /\ IF ~ok
                  THEN pc' = "done" /\ ret' = returnTable(mappings')
                  ELSE pc' = "loop" /\ ret' = ret
          ELSE IF nx.c = ","
          THEN /\ pc' = "key"
               /\ pos' = skipSpace(input, pos + 1)
               /\ UNCHANGED <<mappings, ret>>
          ELSE /\ pc' = "done"
               /\ pos' = pos
               /\ ret' = returnError(mappings, Error("unexpected at offset", pos + 1, nx.c, ""))
               /\ mappings' = mappings
    /\ UNCHANGED <<input, currentPath, word, ok, key, result>>
    /\ UNCHANGED <<cfg, iterPos, ctrlAt>>
    /\ UNCHANGED chainVars

ParserNext ==
    \/ ParseLoopHead
    \/ ParseReadWord
    \/ ParsePathColon
    \/ ParseStep
    \/ ParseSettingsOpen
    \/ ParseSettingsKey
    \/ ParseSettingsColon
    \/ ParseSettingsValue
    \/ ParseSettingsNext

(***************************************************************************)
(* Inputs: every byte string over Alphabet up to MaxLen, and the inputs of *)
(* config/main_test.go and of the documented examples, over Alphabet.      *)
(***************************************************************************)
RECURSIVE Strings(_)
Strings(n) ==
    IF n = 0 THEN {<< >>}
    ELSE LET S == Strings(n - 1) IN
         S \cup {Append(s, c) : s \in {t \in S : Len(t) = n - 1}, c \in Alphabet}

Examples ==
    { <<"a">>,
      <<"a", "{", "a", ":", " ", QUOTE, "a", " ", "a", QUOTE, "}">>,
      <<"/", "a", ":", "a">>,
      <<"a", "{", "a", ":", " ", "a">>,
      <<"/", "a", ":", " ", "a", " ", "a", " ", QUOTE, "a">>,
      <<"/", "a", ":", " ", "a", " ", "a", " ", "/", ":", " ", "a", " ", "a">>,
      <<"a", " ", "a", "{", "a", ":", "a", "}">>,
      <<"/", "a", ":", " ", "a", " ", "/", ":", " ", "a", " ", "/", "a", ":", " ", QUOTE, "b", QUOTE>>,
      <<QUOTE, " ", ",", "{", "}", ":", "\\", QUOTE, "a", QUOTE>> }

ChainIdle ==
    /\ ms = << >>
    /\ term = ""
    /\ composed = << >>
    /\ req = << >>
    /\ stack = << >>
    /\ trace = << >>
    /\ cpc = "idle"
    /\ calls = << >>
    /\ sMiddleware = << >>
    /\ sHandler = ""
    /\ herr = NoError
    /\ builds = << >>
    /\ sizeStr = << >>
    /\ reader = << >>
    /\ out = << >>
    /\ rerr = "none"
    /\ plen = 0
    /\ reads = 0
    /\ invs = << >>
    /\ accesses = {}

Init ==
    /\ \E inp \in Strings(MaxLen) \cup Examples : ParserStart(inp, << >>)
    /\ ChainIdle

Next == ParserNext

Spec == Init /\ [][Next]_vars

(***************************************************************************)
(* Configurations generated from the grammar of the DSL: a sequence of     *)
(* items, each a path declaration or a step (a bare or quoted word with an *)
(* optional settings block), rendered to the string Parse is given.  Items *)
(* are separated by one space; `spaced` renders the settings blocks with   *)
(* the spaces of the repository's tests ("{ foo: bar }", "{a: b, c: d}").  *)
(***************************************************************************)
Bare(v) == [v |-> v, quoted |-> FALSE]
Quoted(v) == [v |-> v, quoted |-> TRUE]
Pair(k, v) == [k |-> k, v |-> v]
PathItem(p) == [kind |-> "path", path |-> p, name |-> Bare(<< >>), nil |-> TRUE, pairs |-> << >>]
StepItem(n) == [kind |-> "step", path |-> << >>, name |-> n, nil |-> TRUE, pairs |-> << >>]
StepItemWith(n, ps) == [kind |-> "step", path |-> << >>, name |-> n, nil |-> FALSE, pairs |-> ps]

GenPaths == { <<"/">>, <<"/", "a">> }
GenNames == { Bare(<<"a">>), Quoted(<<"b", " ", ":">>) }
GenPairs ==
    { <<Pair(Bare(<<"a">>), Bare(<<"b">>))>>,
      <<Pair(Quoted(<<"a", " ", "b">>), Quoted(<< >>)),
        Pair(Bare(<<"b">>), Quoted(<<"}", ",", ":">>))>>,
      <<Pair(Bare(<<"a">>), Bare(<<"b">>)), Pair(Quoted(<<"a">>), Bare(<<"a">>))>> }
GenItems ==
    {PathItem(p) : p \in GenPaths}
    \cup {StepItem(n) : n \in GenNames}
    \cup {StepItemWith(n, ps) : n \in GenNames, ps \in GenPairs}

RECURSIVE ItemSeqs(_)
ItemSeqs(n) ==
    IF n = 0 THEN {<< >>}
    ELSE LET S == ItemSeqs(n - 1) IN
         S \cup {Append(s, i) : s \in {t \in S : Len(t) = n - 1}, i \in GenItems}

GenConfigs == {[items |-> is, spaced |-> sp] : is \in ItemSeqs(MaxItems), sp \in BOOLEAN}

RenderWord(w) == IF w.quoted THEN <<QUOTE>> \o w.v \o <<QUOTE>> ELSE w.v

RECURSIVE RenderPairs(_, _, _)
RenderPairs(ps, i, sp) ==
    IF i > Len(ps) THEN << >>
    ELSE RenderWord(ps[i].k) \o <<":">> \o (IF sp THEN <<" ">> ELSE << >>)
         \o RenderWord(ps[i].v)
         \o (IF i < Len(ps) THEN <<",">> \o (IF sp THEN <<" ">> ELSE << >>) ELSE << >>)
         \o RenderPairs(ps, i + 1, sp)

RenderItem(it, sp) ==
    IF it.kind = "path" THEN it.path \o <<":">>
    ELSE RenderWord(it.name)
         \o (IF it.nil THEN << >>
             ELSE <<"{">> \o (IF sp THEN <<" ">> ELSE << >>)
                  \o RenderPairs(it.pairs, 1, sp)
                  \o (IF sp THEN <<" ">> ELSE << >>) \o <<"}">>)

RECURSIVE RenderItems(_, _, _)
RenderItems(is, i, sp) ==
    IF i > Len(is) THEN << >>
    ELSE RenderItem(is[i], sp) \o (IF i < Len(is) THEN <<" ">> ELSE << >>)
         \o RenderItems(is, i + 1, sp)

Render(c) == RenderItems(c.items, 1, c.spaced)

\* What a configuration declares.
MaxOf(S) == CHOOSE x \in S : \A y \in S : y <= x

\* the path of the most recent path declaration before item i, "/" if none
GoverningPath(is, i) ==
    LET decls == {j \in 1..(i - 1) : is[j].kind = "path"} IN
    IF decls = {} THEN <<"/">> ELSE is[MaxOf(decls)].path

\* the mapping a settings block declares: each key with its last value
DeclaredMap(ps) ==
    [k \in {ps[i].k.v : i \in 1..Len(ps)} |->
        ps[MaxOf({i \in 1..Len(ps) : ps[i].k.v = k})].v.v]

DeclaredStep(it) ==
    HandlerConfig(it.name.v, IF it.nil THEN NilSettings ELSE MapSettings(DeclaredMap(it.pairs)))

\* the steps declared for path p among the first n items, in declaration order
RECURSIVE DeclaredSteps(_, _, _)
DeclaredSteps(is, p, n) ==
    IF n = 0 THEN << >>
    ELSE LET rest == DeclaredSteps(is, p, n - 1) IN
         IF is[n].kind = "step" /\ GoverningPath(is, n) = p
         THEN Append(rest, DeclaredStep(is[n]))
         ELSE rest

\* the index of the k-th step among the items (0 if there are fewer)
StepIndex(is, k) ==
    LET idx == {i \in 1..Len(is) :
                   /\ is[i].kind = "step"
                   /\ Cardinality({j \in 1..i : is[j].kind = "step"}) = k} IN
    IF idx = {} THEN 0 ELSE CHOOSE i \in idx : TRUE

InitGen ==
    /\ \E c \in GenConfigs : ParserStart(Render(c), c)
    /\ ChainIdle

SpecGen == InitGen /\ [][Next]_vars

(***************************************************************************)
(* Generated configurations with whitespace: the rendering of a            *)
(* configuration without optional spaces, with one run of spaces, tabs and *)
(* newlines inserted at every occurrence of one kind of place.             *)
(***************************************************************************)
\* places inside a settings block
SettingsPlaces == {"after-open", "after-colon", "before-comma", "after-comma", "before-close"}
\* places before or after a word outside a quoted string
WsPlaces ==
    SettingsPlaces \cup {"around-item", "name-brace", "path-colon", "key-colon"}

WsRuns == { <<" ">>, <<"\t">>, <<"\n", " ">> }

WsConfigs ==
    {[items |-> is, spaced |-> FALSE, place |-> pl, run |-> r] :
        is \in ItemSeqs(MaxWsItems), pl \in WsPlaces, r \in WsRuns}

Gap(c, place) == IF c.place = place THEN c.run ELSE << >>

RECURSIVE RenderWsPairs(_, _, _)
RenderWsPairs(c, ps, i) ==
    IF i > Len(ps) THEN << >>
    ELSE RenderWord(ps[i].k) \o Gap(c, "key-colon") \o <<":">> \o Gap(c, "after-colon")
         \o RenderWord(ps[i].v)
         \o (IF i < Len(ps)
             THEN Gap(c, "before-comma") \o <<",">> \o Gap(c, "after-comma")
             ELSE << >>)
         \o RenderWsPairs(c, ps, i + 1)

RenderWsItem(c, it) ==
    IF it.kind = "path" THEN it.path \o Gap(c, "path-colon") \o <<":">>
    ELSE RenderWord(it.name)
         \o (IF it.nil THEN << >>
             ELSE Gap(c, "name-brace") \o <<"{">> \o Gap(c, "after-open")
                  \o RenderWsPairs(c, it.pairs, 1)
                  \o Gap(c, "before-close") \o <<"}">>)

RECURSIVE RenderWsItems(_, _)
RenderWsItems(c, i) ==
    IF i > Len(c.items) THEN << >>
    ELSE Gap(c, "around-item") \o RenderWsItem(c, c.items[i])
         \o (IF i < Len(c.items) THEN <<" ">> ELSE Gap(c, "around-item"))
         \o RenderWsItems(c, i + 1)

RenderWs(c) == RenderWsItems(c, 1)

InitWs ==
    /\ \E c \in WsConfigs : ParserStart(RenderWs(c), c)
    /\ ChainIdle

SpecWs == InitWs /\ [][Next]_vars

(***************************************************************************)
(* Claims about the parser                                                 *)
(***************************************************************************)
Done == pc = "done"

StoredUnderGoverningPath ==
    LET is == cfg.items
        i == StepIndex(is, TotalSteps(mappings) + 1)
        p == GoverningPath(is, i)
    IN  /\ i # 0
        /\ DOMAIN mappings' = DOMAIN mappings \cup {p}
        /\ \A q \in DOMAIN mappings : q # p => mappings'[q] = mappings[q]
        /\ Len(mappings'[p]) = Len(Lookup(mappings, p)) + 1
        /\ SubSeq(mappings'[p], 1, Len(mappings'[p]) - 1) = Lookup(mappings, p)
        /\ mappings'[p][Len(mappings'[p])].Name = is[i].name.v

C2_StepsUnderMostRecentPath ==
    [][mappings' # mappings => StoredUnderGoverningPath]_vars

C2_Witness ==
    /\ Done
    /\ Len(cfg.items) = 3
    /\ cfg.items[1].kind = "step"
    /\ cfg.items[2].kind = "path" /\ cfg.items[2].path = <<"/", "a">>
    /\ cfg.items[3].kind = "step"
    /\ Len(Lookup(mappings, <<"/">>)) = 1
    /\ Len(Lookup(mappings, <<"/", "a">>)) = 1

\* C3: for every input byte string Parse terminates after a single
\* left-to-right pass: whenever parse() is back at the head of its loop, the
\* cursor has moved past the point where the previous item began, so the
\* loop runs at most len(input) times before it returns.
C3_ParseTerminates == pc = "loop" => pos > iterPos

\* C4: wherever a word start is expected (a top-level item, a settings key,
\* a settings value), a ':' ',' or '}' there makes Parse return a syntax
\* error that names that byte and its 1-based offset; the byte is never
\* accepted as an empty word.
C4_ControlAtWordStartIsError ==
    (Done /\ ctrlAt # 0) =>
        /\ ret.failed
        /\ ret.err.offset = ctrlAt
        /\ ret.err.got = input[ctrlAt]

\* C5: Parse returns a syntax error whenever the input ends inside a quoted
\* string, inside a settings block before its closing '}', or directly after
\* a path token where its ':' is expected; `static{foo: bar` fails instead
\* of yielding a truncated table.
C5_EndOfInputIsSyntaxError ==
    (Done /\ eofIn \in {"quoted", "settings", "path"}) =>
        /\ ret.failed
        /\ ret.err # NoError
        /\ ret.table.nil

C5_Witness ==
    /\ Done
    /\ input = <<"a", "{", "a", ":", " ", "a">>
    /\ eofIn = "settings"
    /\ ret.failed

\* C6: when Parse returns an error it returns no routing table (nil),
\* whatever paths and steps were already parsed before the failure point.
C6_ErrorReturnsNoTable ==
    (Done /\ ret.err # NoError) => (ret.failed /\ ret.table = NilTable)

C6_Witness ==
    /\ Done
    /\ ret.err # NoError
    /\ Len(Lookup(mappings, <<"/", "a">>)) = 2
    /\ ret.table = NilTable

\* C7: every error returned by Parse carries the 1-based byte offset of the
\* cursor at the moment of failure, including the errors raised at the end
\* of the input (unterminated quoted string, missing expected character,
\* missing word).
C7_EveryErrorCarriesOffset ==
    (Done /\ ret.failed) => ret.err.offset = pos + 1

\* C11: a step whose name is immediately followed by '{' gets the mapping
\* parsed from that settings block attached; a step whose name is not
\* immediately followed by '{' is stored with absent (nil) settings, never
\* with an empty mapping.  Stated on every step of parse(): right after a
\* step name was read, a '{' at the cursor defers the append to the end of
\* the block, where the step stored carries the block's mapping; any other
\* byte (or the end of the input) stores the step at once with nil settings.
LastStored == LET s == mappings'[currentPath] IN s[Len(s)]

C11_SettingsAttachedOnlyAfterBrace ==
    [][/\ (pc = "step" /\ peek(input, pos).c = "{") =>
              (mappings' = mappings /\ pc' = "settings")
       /\ (pc = "step" /\ peek(input, pos).c # "{") =>
              /\ mappings' # mappings
              /\ LastStored.Name = word
              /\ LastStored.Settings.nil
              /\ LastStored.Settings.kv = EmptyMap
       /\ (pc # "step" /\ mappings' # mappings) =>
              /\ pc = "next"
              /\ LastStored.Name = word
              /\ ~LastStored.Settings.nil
              /\ LastStored.Settings.kv = result
              /\ DOMAIN result # {}]_vars

C11_Witness ==
    /\ Done
    /\ input = <<"a", " ", "a", "{", "a", ":", "a", "}">>
    /\ ~ret.failed
    /\ ret.table.m[<<"/">>][1].Settings.nil
    /\ ~ret.table.m[<<"/">>][2].Settings.nil
    /\ ret.table.m[<<"/">>][2].Settings.kv[<<"a">>] = <<"a">>

\* C12: a word that starts with '"' has as its value exactly the bytes
\* between that opening quote and the next '"' in the input: whitespace and
\* ',', '{', '}', ':' inside are preserved verbatim, no escape sequence is
\* interpreted, and the value never contains '"'.  Stated for the three
\* places a word is read: a top-level item, a settings key, a settings value.
NextQuote(from) ==
    LET Q == {j \in from..Len(input) : input[j] = QUOTE} IN
    IF Q = {} THEN 0 ELSE CHOOSE j \in Q : \A k \in Q : j <= k

StartsQuoted == peek(input, pos).ok /\ peek(input, pos).c = QUOTE

BetweenQuotes == SubSeq(input, pos + 2, NextQuote(pos + 2) - 1)

NoQuoteIn(v) == \A i \in 1..Len(v) : v[i] # QUOTE

C12_QuotedValueIsVerbatim ==
    [][(StartsQuoted /\ NextQuote(pos + 2) # 0) =>
          /\ pc = "word" =>
                (pc' \in {"colon", "step"} /\ word' = BetweenQuotes /\ NoQuoteIn(word'))
          /\ pc = "key" =>
                (pc' = "colon2" /\ key' = BetweenQuotes /\ NoQuoteIn(key'))
          /\ pc = "value" =>
                (pc' = "next" /\ result'[key] = BetweenQuotes /\ NoQuoteIn(result'[key]))]_vars

C12_Witness ==
    /\ Done
    /\ input = <<QUOTE, " ", ",", "{", "}", ":", "\\", QUOTE, "a", QUOTE>>
    /\ ~ret.failed
    /\ ret.table.m[<<"/">>][1].Name = <<" ", ",", "{", "}", ":", "\\">>
    /\ ret.table.m[<<"/">>][2].Name = <<"a", QUOTE>>

\* C13: inserting spaces, tabs or newlines before or after any word outside
\* a quoted string never changes what Parse returns: whitespace between a
\* step name and its '{', between a path and its ':', and between a settings
\* key and its ':' is skipped.  The configuration without the inserted run
\* parses to the declared steps (C1), so with the run inserted at any kind
\* of place Parse must return the same table.
C13_WhitespaceNeverChangesResult ==
    Done =>
        /\ ~ret.failed
        /\ ~ret.table.nil
        /\ \A p \in GenPaths \cup DOMAIN ret.table.m :
              Lookup(ret.table.m, p) = DeclaredSteps(cfg.items, p, Len(cfg.items))

\* C14: within a settings block, runs of spaces, tabs and newlines directly
\* after '{', directly after a key's ':', on either side of ',' and directly
\* before '}' are skipped: every step's mapping equals the one declared by
\* the same block without them (key -> value functions, so key order does
\* not matter).
C14_SettingsWhitespaceSkipped ==
    (Done /\ cfg.place \in SettingsPlaces) =>
        /\ ~ret.failed
        /\ \A k \in 1..Len(cfg.items) :
              LET i == StepIndex(cfg.items, k) IN
              i # 0 =>
                 LET p == GoverningPath(cfg.items, i)
                     n == Len(DeclaredSteps(cfg.items, p, i)) IN
                 /\ Len(Lookup(ret.table.m, p)) >= n
                 /\ ret.table.m[p][n].Settings.nil = cfg.items[i].nil
                 /\ ~cfg.items[i].nil =>
                       ret.table.m[p][n].Settings.kv = DeclaredMap(cfg.items[i].pairs)

C14_Witness ==
    /\ Done
    /\ cfg.place = "before-comma"
    /\ cfg.run = <<"\n", " ">>
    /\ Len(cfg.items) = 1
    /\ ~cfg.items[1].nil
    /\ Len(cfg.items[1].pairs) = 2
    /\ ~ret.failed
    /\ DOMAIN ret.table.m[<<"/">>][1].Settings.kv = {<<"a", " ", "b">>, <<"b">>}

\* C15: when a key occurs more than once in a settings block, the resulting
\* mapping holds that key exactly once, with the value of its last
\* occurrence in the block.
Occurrences(ps, k) == {i \in 1..Len(ps) : ps[i].k.v = k}

StoredStep(i) ==
    LET p == GoverningPath(cfg.items, i) IN
    Lookup(ret.table.m, p)[Len(DeclaredSteps(cfg.items, p, i))]

C15_DuplicateKeyLastWins ==
    Done =>
        /\ ~ret.failed
        /\ \A i \in 1..Len(cfg.items) :
              (cfg.items[i].kind = "step" /\ ~cfg.items[i].nil) =>
                 LET ps == cfg.items[i].pairs
                     p == GoverningPath(cfg.items, i) IN
                 /\ Len(Lookup(ret.table.m, p)) >= Len(DeclaredSteps(cfg.items, p, i))
                 /\ ~StoredStep(i).Settings.nil
                 /\ DOMAIN StoredStep(i).Settings.kv = {ps[j].k.v : j \in 1..Len(ps)}
                 /\ \A j \in 1..Len(ps) :
                       (\A l \in Occurrences(ps, ps[j].k.v) : l <= j) =>
                           StoredStep(i).Settings.kv[ps[j].k.v] = ps[j].v.v

C15_Witness ==
    /\ Done
    /\ ~ret.failed
    /\ Len(cfg.items) = 1
    /\ ~cfg.items[1].nil
    /\ Cardinality(Occurrences(cfg.items[1].pairs, <<"a">>)) = 2
    /\ ret.table.m[<<"/">>][1].Settings.kv = (<<"a">> :> <<"a">>)

\* C16: every entry of a returned routing table has a key that starts with
\* '/' and holds at least one step; a path declared without any step after
\* it yields no entry in the table.
C16_EntriesHavePathKeyAndSteps ==
    Done =>
        /\ ~ret.failed
        /\ \A p \in DOMAIN ret.table.m :
              /\ Len(p) >= 1
              /\ p[1] = "/"
              /\ Len(ret.table.m[p]) >= 1
        /\ \A i \in 1..Len(cfg.items) :
              (/\ cfg.items[i].kind = "path"
               /\ \A j \in 1..Len(cfg.items) :
                     cfg.items[j].kind = "step" =>
                        GoverningPath(cfg.items, j) # cfg.items[i].path) =>
                  cfg.items[i].path \notin DOMAIN ret.table.m

C16_Witness ==
    /\ Done
    /\ ~ret.failed
    /\ Len(cfg.items) = 3
    /\ cfg.items[1].kind = "step"
    /\ cfg.items[2].kind = "path" /\ cfg.items[2].path = <<"/", "a">>
    /\ cfg.items[3].kind = "path" /\ cfg.items[3].path = <<"/">>
    /\ DOMAIN ret.table.m = {<<"/">>}
    /\ Len(ret.table.m[<<"/">>]) = 1

(***************************************************************************)
(* Chain builder (middleware.go) and one request through the handler it    *)
(* returns.  A handler value is the sequence of the components it is made  *)
(* of, outermost first: the terminal handler h is <<h>>, and the closure   *)
(* m(next) a middleware returns is <<m>> \o next.                          *)
(***************************************************************************)
\* the keys of the middleware registry, lines 24-49
Middlewares == {"timeout", "req", "log", "json", "header", "header-out"}
\* terminal handlers (keys of the handler registry)
TerminalHandlers == {"static", "echo"}

\* what of a request decides a middleware's control flow: the `duration`
\* query parameter (timeout) and the body (jsonLogger)
Requests == [duration : {"absent", "valid", "invalid"},
             body : {"none", "readable", "unreadable"}]

\* m(next): the closure a middleware returns captures next
applyMiddleware(m, next) == <<m>> \o next

\* chain, lines 53-60: for i := range middlewares { h = middlewares[len-1-i](h) }
RECURSIVE chainLoopReversed(_, _, _)
chainLoopReversed(mws, h, i) ==
    IF i >= Len(mws) THEN h
    ELSE chainLoopReversed(mws, applyMiddleware(mws[i + 1], h), i + 1)

RECURSIVE chainLoop(_, _, _)
chainLoop(mws, h, i) ==
    IF i >= Len(mws) THEN h
    ELSE chainLoop(mws, applyMiddleware(mws[(Len(mws) - 1 - i) + 1], h), i + 1)

chainDefaultsWhenEmpty(mws, h) ==
    IF mws = << >> THEN chainLoop(<<"req">>, h, 0) ELSE chainLoop(mws, h, 0)

chain(mws, h) == chainLoop(mws, h, 0)

\* jsonLogger without the return after its first next(w, r) (line 108):
\* it goes on to read the body and calls next again
nextCallsJsonFallsThrough(m, r) ==
    CASE m = "timeout" -> IF r.duration = "invalid" THEN 0 ELSE 1
      [] m = "json"    -> IF r.body = "none" THEN 2 ELSE 1
      [] OTHER         -> 1

\* how many times the middleware's closure executes next(w, r) on the path
\* this request takes through it:
\* timeout returns after http.Error when the duration does not parse (lines
\* 68-71) and calls next at line 74 otherwise; jsonLogger calls next at line
\* 107 and returns when there is no body to log, returns without next when
\* reading the body fails (113-116), and calls next at line 125 otherwise;
\* dumpRequest (98), logRequest (80, through CaptureMetrics), header (35)
\* and header-out (45) have one call of next on their only path.
nextCalls(m, r) ==
    CASE m = "timeout" -> IF r.duration = "invalid" THEN 0 ELSE 1
      [] m = "json"    -> IF r.body = "none" THEN 1
                          ELSE IF r.body = "unreadable" THEN 0
                          ELSE 1
      [] OTHER         -> 1

\* a middleware that calls next on every path through it
callsNextAlways(m, r) == TRUE

\* whether the middleware calls next(w, r) for this request
callsNext(m, r) == nextCalls(m, r) >= 1

Event(ev, frame) == [ev |-> ev, name |-> Head(frame), depth |-> Len(composed) - Len(frame) + 1]

\* a handler returning: control is back in its caller
returnToCaller(st) == SubSeq(st, 1, Len(st) - 1)

ChainStart(mws, h, r) ==
    /\ ms = mws
    /\ term = h
    /\ req = r
    /\ composed = << >>
    /\ stack = << >>
    /\ trace = << >>
    /\ cpc = "build"
    /\ calls = << >>
    /\ sMiddleware = << >>
    /\ sHandler = ""
    /\ herr = NoError
    /\ builds = << >>
    /\ sizeStr = << >>
    /\ reader = << >>
    /\ out = << >>
    /\ rerr = "none"
    /\ plen = 0
    /\ reads = 0
    /\ invs = << >>
    /\ accesses = {}

ParserIdle ==
    /\ input = << >>
    /\ cfg = << >>
    /\ pos = 0
    /\ pc = "idle"
    /\ currentPath = <<"/">>
    /\ word = << >>
    /\ ok = TRUE
    /\ mappings = EmptyMap
    /\ key = << >>
    /\ result = EmptyMap
    /\ ret = NotReturned
    /\ iterPos = -1
    /\ ctrlAt = 0
    /\ eofIn = "none"

\* chain(ms...)(h), as getHandler line 83 calls it
ChainBuild ==
    /\ cpc = "build"
    /\ composed' = chain(ms, <<term>>)
    /\ cpc' = "ready"
    /\ UNCHANGED <<ms, term, req, stack, trace, calls, flagVars, builds, readerVars, concVars>>
    /\ UNCHANGED <<parserVars, ghostVars>>

\* the server calls the composed handler for a request
ServeRequest ==
    /\ cpc = "ready"
    /\ stack' = <<[h |-> composed, called |-> FALSE]>>
    /\ calls' = [d \in 1..Len(composed) |-> 0]
    /\ cpc' = "serving"
    /\ UNCHANGED <<ms, term, composed, req, trace, flagVars, builds, readerVars, concVars>>
    /\ UNCHANGED <<parserVars, ghostVars>>

\* a middleware's closure starts: it calls next or returns without it
MiddlewareServe ==
    /\ cpc = "serving"
    /\ stack # << >>
    /\ LET f == stack[Len(stack)] IN
       /\ ~f.called
       /\ Len(f.h) > 1
       /\ IF callsNext(Head(f.h), req)
          THEN /\ trace' = trace \o <<Event("start", f.h), Event("next", f.h)>>
               /\ stack' = [stack EXCEPT ![Len(stack)].called = TRUE]
                              \o <<[h |-> Tail(f.h), called |-> FALSE]>>
               /\ calls' = [calls EXCEPT ![Len(stack)] = @ + 1]
               /\ cpc' = cpc
          ELSE /\ trace' = trace \o <<Event("start", f.h), Event("return", f.h)>>
               /\ stack' = returnToCaller(stack)
               /\ calls' = calls
               /\ cpc' = IF stack' = << >> THEN "served" ELSE "serving"
    /\ UNCHANGED <<ms, term, composed, req, flagVars, builds, readerVars, concVars>>
    /\ UNCHANGED <<parserVars, ghostVars>>

\* the terminal handler produces the response and returns
HandlerServe ==
    /\ cpc = "serving"
    /\ stack # << >>
    /\ LET f == stack[Len(stack)] IN
       /\ ~f.called
       /\ Len(f.h) = 1
       /\ trace' = trace \o <<Event("start", f.h), Event("return", f.h)>>
       /\ stack' = returnToCaller(stack)
       /\ cpc' = IF stack' = << >> THEN "served" ELSE "serving"
    /\ UNCHANGED <<ms, term, composed, req, calls, flagVars, builds, readerVars, concVars>>
    /\ UNCHANGED <<parserVars, ghostVars>>

\* next(w, r) has returned: the middleware goes on to its next call of
\* next, if the path it is on has one, or finishes and returns
MiddlewareReturn ==
    /\ cpc = "serving"
    /\ stack # << >>
    /\ LET f == stack[Len(stack)] IN
       /\ f.called
       /\ IF calls[Len(stack)] < nextCalls(Head(f.h), req)
          THEN /\ trace' = Append(trace, Event("next", f.h))
               /\ stack' = stack \o <<[h |-> Tail(f.h), called |-> FALSE]>>
               /\ calls' = [calls EXCEPT ![Len(stack)] = @ + 1]
               /\ cpc' = cpc
          ELSE /\ trace' = Append(trace, Event("return", f.h))
               /\ stack' = returnToCaller(stack)
               /\ calls' = calls
               /\ cpc' = IF stack' = << >> THEN "served" ELSE "serving"
    /\ UNCHANGED <<ms, term, composed, req, flagVars, builds, readerVars, concVars>>
    /\ UNCHANGED <<parserVars, ghostVars>>

ChainNext ==
    \/ ChainBuild
    \/ ServeRequest
    \/ MiddlewareServe
    \/ HandlerServe
    \/ MiddlewareReturn

RECURSIVE MiddlewareLists(_)
MiddlewareLists(n) ==
    IF n = 0 THEN {<< >>}
    ELSE LET S == MiddlewareLists(n - 1) IN
         S \cup {Append(s, m) : s \in {t \in S : Len(t) = n - 1}, m \in Middlewares}

ChainInit ==
    /\ \E mws \in MiddlewareLists(MaxChain), h \in TerminalHandlers, r \in Requests :
          ChainStart(mws, h, r)
    /\ ParserIdle

SpecChain == ChainInit /\ [][ChainNext]_vars

(***************************************************************************)
(* serverConfig.getHandler (main.go lines 52-84): the names of the         *)
(* -middleware flag are looked up in the middleware registry, the name of  *)
(* the -handler flag in the handler registry, and the handler returned is  *)
(* chain(middlewareChain...)(handler).                                     *)
(***************************************************************************)
\* the keys of the handler registry, handler.go lines 29-93
HandlerRegistry == {"info", "static", "echo", "proxy", "hec", "data", "fs"}

\* handler = okHandler, line 58
okHandler == "ok"

\* a getHandler that starts from an empty middleware list
emptyMiddlewareChain == << >>

\* middlewareChain = []middleware{ dumpRequest }, lines 60-64
defaultMiddlewareChain == <<"req">>

\* a lookup that accepts a name of either registry
inEitherRegistry(name) == name \in Middlewares \cup HandlerRegistry

\* middleware, ok := middlewares[middlewareName], line 67
inMiddlewares(name) == name \in Middlewares

\* handler, ok = handlers[s.handler], line 77
inHandlers(name) == name \in HandlerRegistry

\* the index of the first name the loop of lines 66-72 does not find, 0 if
\* it finds them all
FirstNotFound(names) ==
    LET bad == {i \in 1..Len(names) : ~inMiddlewares(names[i])} IN
    IF bad = {} THEN 0 ELSE CHOOSE i \in bad : \A j \in bad : i <= j

\* fmt.Errorf("middleware '%s' does not exist", ...), "handler '%s' ..."
NotExist(kind, name) == [msg |-> kind \o " does not exist", name |-> name]

GetHandler ==
    /\ cpc = "resolve"
    /\ LET bad == FirstNotFound(sMiddleware) IN
       IF sMiddleware # << >> /\ bad # 0
       THEN /\ herr' = NotExist("middleware", sMiddleware[bad])
            /\ ms' = SubSeq(sMiddleware, 1, bad - 1)
            /\ cpc' = "failed"
            /\ UNCHANGED <<term, composed>>
       ELSE IF sHandler # "" /\ ~inHandlers(sHandler)
       THEN /\ herr' = NotExist("handler", sHandler)
            /\ ms' = IF sMiddleware = << >> THEN defaultMiddlewareChain ELSE sMiddleware
            /\ cpc' = "failed"
            /\ UNCHANGED <<term, composed>>
       ELSE /\ herr' = NoError
            /\ ms' = IF sMiddleware = << >> THEN defaultMiddlewareChain ELSE sMiddleware
            /\ term' = IF sHandler = "" THEN okHandler ELSE sHandler
            /\ composed' = chain(ms', <<term'>>)
            /\ cpc' = "ready"
    /\ UNCHANGED <<req, stack, trace, calls, sMiddleware, sHandler, builds, readerVars, concVars>>
    /\ UNCHANGED <<parserVars, ghostVars>>

\* the flag values: names of both registries, a name of neither, and the
\* empty name a trailing ',' leaves
FlagNames == {"log", "timeout", "static", "echo", "bogus", ""}

RECURSIVE NameLists(_)
NameLists(n) ==
    IF n = 0 THEN {<< >>}
    ELSE LET S == NameLists(n - 1) IN
         S \cup {Append(s, m) : s \in {t \in S : Len(t) = n - 1}, m \in FlagNames}

GetHandlerStart(mws, h, r) ==
    /\ sMiddleware = mws
    /\ sHandler = h
    /\ herr = NoError
    /\ req = r
    /\ ms = << >>
    /\ term = ""
    /\ composed = << >>
    /\ stack = << >>
    /\ trace = << >>
    /\ calls = << >>
    /\ builds = << >>
    /\ sizeStr = << >>
    /\ reader = << >>
    /\ out = << >>
    /\ rerr = "none"
    /\ plen = 0
    /\ reads = 0
    /\ invs = << >>
    /\ accesses = {}
    /\ cpc = "resolve"

\* strings.Split of a non-empty flag never yields the single empty name
ResolveInit ==
    /\ \E mws \in NameLists(MaxChain) \ {<<"">>}, h \in FlagNames,
          r \in {q \in Requests : q.duration = "absent"} :
          GetHandlerStart(mws, h, r)
    /\ ParserIdle

ResolveNext ==
    \/ GetHandler
    \/ ServeRequest
    \/ MiddlewareServe
    \/ HandlerServe
    \/ MiddlewareReturn

SpecResolve == ResolveInit /\ [][ResolveNext]_vars

(***************************************************************************)
(* The empty configuration: Parse on an input of spaces, tabs and newlines *)
(* only, and getHandler with neither flag set.                             *)
(***************************************************************************)
Blank == {" ", "\t", "\n"}

RECURSIVE BlankStrings(_)
BlankStrings(n) ==
    IF n = 0 THEN {<< >>}
    ELSE LET S == BlankStrings(n - 1) IN
         S \cup {Append(s, c) : s \in {t \in S : Len(t) = n - 1}, c \in Blank}

EmptyInit ==
    /\ \E inp \in BlankStrings(MaxLen) : ParserStart(inp, << >>)
    /\ \E r \in Requests : GetHandlerStart(<< >>, "", r)

EmptyNext ==
    \/ ParseLoopHead
    \/ GetHandler
    \/ ServeRequest
    \/ MiddlewareServe
    \/ HandlerServe
    \/ MiddlewareReturn

SpecEmpty == EmptyInit /\ [][EmptyNext]_vars

(***************************************************************************)
(* One pipeline built twice: a header or header-out middleware with its    *)
(* settings in front of the static handler (middleware.go lines 29-48,     *)
(* handler.go lines 31-45 and 113-128), and the same request through each  *)
(* of the two composed handlers.                                           *)
(***************************************************************************)
Builds == {1, 2}

\* settings keys; "x-a" and "X-A" are two keys of the settings map
HeaderKeys == {"x-a", "X-A", "x-b"}
HeaderValues == {"1", "2"}

\* the settings maps of a header step: every map over a non-empty set of keys
HeaderConfigs ==
    UNION {[K -> HeaderValues] : K \in (SUBSET HeaderKeys) \ {{}}}

\* http.Header.Add stores a value under the canonical form of its key
CanonicalHeaderKey(k) ==
    CASE k = "x-a" -> "X-A"
      [] k = "X-A" -> "X-A"
      [] k = "x-b" -> "X-B"

CanonicalKeys == {CanonicalHeaderKey(k) : k \in HeaderKeys}

NoHeaders == [k \in CanonicalKeys |-> << >>]

\* Header.Add(key, value): the value is appended to the values of the key
HeaderAdd(h, k, v) == [h EXCEPT ![CanonicalHeaderKey(k)] = Append(@, v)]

\* the headers a request arrives with
RequestHeaders == {NoHeaders, [NoHeaders EXCEPT !["X-A"] = <<"0">>]}

NotServed == [code |-> 0, body |-> "", header |-> NoHeaders]

\* staticResponseHandler with its defaults (handler.go lines 113-128):
\* w.WriteHeader(h.code); w.Write(h.body), with the headers set so far
staticResponse(whdr) == [code |-> 200, body |-> "ok\n", header |-> whdr]

NewBuild(kind, conf, rhdr) ==
    [pc |-> "new", kind |-> kind, config |-> conf, handler |-> << >>,
     todo |-> {}, rhdr |-> rhdr, whdr |-> NoHeaders,
     ran |-> << >>, resp |-> NotServed]

\* the factory returns the closure over config, chain composes it with the
\* static handler
BuildPipeline(b) ==
    /\ builds[b].pc = "new"
    /\ builds' = [builds EXCEPT ![b].handler = chain(<<builds[b].kind>>, <<"static">>),
                                ![b].pc = "ready"]
    /\ UNCHANGED <<ms, term, composed, req, stack, trace, cpc, calls, flagVars, readerVars, concVars>>
    /\ UNCHANGED <<parserVars, ghostVars>>

\* the request enters the closure: `for key, value := range config` begins
HeaderServe(b) ==
    /\ builds[b].pc = "ready"
    /\ builds' = [builds EXCEPT ![b].todo = DOMAIN builds[b].config,
                                ![b].ran = <<Head(builds[b].handler)>>,
                                ![b].pc = "range"]
    /\ UNCHANGED <<ms, term, composed, req, stack, trace, cpc, calls, flagVars, readerVars, concVars>>
    /\ UNCHANGED <<parserVars, ghostVars>>

\* one iteration of the range over the settings map (lines 32-34, 42-44):
\* the language leaves the iteration order of a map unspecified, so the
\* iteration takes any key not yet visited
HeaderRange(b) ==
    /\ builds[b].pc = "range"
    /\ \E k \in builds[b].todo :
          LET v == builds[b].config[k] IN
          builds' = [builds EXCEPT
                        ![b].todo = @ \ {k},
                        ![b].rhdr = IF builds[b].kind = "header"
                                    THEN HeaderAdd(@, k, v) ELSE @,
                        ![b].whdr = IF builds[b].kind = "header-out"
                                    THEN HeaderAdd(@, k, v) ELSE @]
    /\ UNCHANGED <<ms, term, composed, req, stack, trace, cpc, calls, flagVars, readerVars, concVars>>
    /\ UNCHANGED <<parserVars, ghostVars>>

\* the range is over: next(w, r), the static handler writes the response
HeaderCallsNext(b) ==
    /\ builds[b].pc = "range"
    /\ builds[b].todo = {}
    /\ builds' = [builds EXCEPT ![b].ran = Append(@, builds[b].handler[2]),
                                ![b].resp = staticResponse(builds[b].whdr),
                                ![b].pc = "done"]
    /\ UNCHANGED <<ms, term, composed, req, stack, trace, cpc, calls, flagVars, readerVars, concVars>>
    /\ UNCHANGED <<parserVars, ghostVars>>

TwiceInit ==
    /\ \E kind \in {"header", "header-out"}, conf \in HeaderConfigs, rhdr \in RequestHeaders :
          builds = [b \in Builds |-> NewBuild(kind, conf, rhdr)]
    /\ ms = << >>
    /\ term = ""
    /\ composed = << >>
    /\ req = << >>
    /\ stack = << >>
    /\ trace = << >>
    /\ cpc = "idle"
    /\ calls = << >>
    /\ sMiddleware = << >>
    /\ sHandler = ""
    /\ herr = NoError
    /\ sizeStr = << >>
    /\ reader = << >>
    /\ out = << >>
    /\ rerr = "none"
    /\ plen = 0
    /\ reads = 0
    /\ invs = << >>
    /\ accesses = {}
    /\ ParserIdle

TwiceNext ==
    \E b \in Builds :
        \/ BuildPipeline(b)
        \/ HeaderServe(b)
        \/ HeaderRange(b)
        \/ HeaderCallsNext(b)

SpecTwice == TwiceInit /\ [][TwiceNext]_vars

(***************************************************************************)
(* nBytesReader (handler.go lines 173-196) and dataHandler (155-171).      *)
(***************************************************************************)
Sizes == (0 - MaxSize)..MaxSize

\* newNBytesReader(size), lines 173-177
newNBytesReader(size) == [n |-> size, sent |-> 0]

\* a loop that goes on while the buffer has room, whatever was sent
RECURSIVE readLoopIgnoresN(_, _, _)
readLoopIgnoresN(l, rd, sent) ==
    IF sent < l
    THEN readLoopIgnoresN(l, [rd EXCEPT !.sent = @ + 1], sent + 1)
    ELSE [sent |-> sent, rd |-> rd]

\* the loop of Read, lines 188-191:
\* for ; sent < len(p) && n.sent < n.n; sent++ { p[sent] = 'A'; n.sent++ }
RECURSIVE readLoop(_, _, _)
readLoop(l, rd, sent) ==
    IF sent < l /\ rd.sent < rd.n
    THEN readLoop(l, [rd EXCEPT !.sent = @ + 1], sent + 1)
    ELSE [sent |-> sent, rd |-> rd]

\* the bytes the loop stored in p[0:sent]
Filled(sent) == [i \in 1..sent |-> "A"]

\* Read(p) with len(p) = l, lines 186-196, and the caller taking p[0:sent]
ReadCall(l) ==
    LET r == readLoop(l, reader, 0) IN
    /\ reader' = r.rd
    /\ out' = out \o Filled(r.sent)
    /\ rerr' = IF r.rd.sent = r.rd.n THEN "EOF" ELSE "nil"
    /\ plen' = l

\* any Read call on the reader, with a buffer of any length
Read ==
    /\ reader # << >>
    /\ reads < MaxReads
    /\ \E l \in 0..MaxBuf : ReadCall(l)
    /\ reads' = reads + 1
    /\ UNCHANGED sizeStr
    /\ UNCHANGED <<ms, term, composed, req, stack, trace, cpc, calls, flagVars, builds, concVars>>
    /\ UNCHANGED <<parserVars, ghostVars>>

OtherIdle ==
    /\ ms = << >>
    /\ term = ""
    /\ composed = << >>
    /\ req = << >>
    /\ stack = << >>
    /\ trace = << >>
    /\ cpc = "idle"
    /\ calls = << >>
    /\ sMiddleware = << >>
    /\ sHandler = ""
    /\ herr = NoError
    /\ builds = << >>
    /\ invs = << >>
    /\ accesses = {}
    /\ ParserIdle

ReaderInit ==
    /\ \E size \in Sizes : reader = newNBytesReader(size)
    /\ sizeStr = << >>
    /\ out = << >>
    /\ rerr = "none"
    /\ plen = 0
    /\ reads = 0
    /\ OtherIdle

ReaderNext == Read

SpecReader == ReaderInit /\ [][ReaderNext]_vars

(***************************************************************************)
(* dataHandler: the size parameter, then io.Copy(w, newNBytesReader(size)), *)
(* which calls Read with a non-empty buffer until a Read returns an error. *)
(***************************************************************************)
\* the `size` query parameter: absent, not a number, or the decimal form of
\* an integer (strconv.Atoi accepts a sign)
SizeParams ==
    {[kind |-> "empty", val |-> 0], [kind |-> "text", val |-> 0]}
    \cup {[kind |-> "int", val |-> i] : i \in Sizes}

\* lines 156-168: size := 0; Atoi unless the parameter is empty;
\* http.Error and return when Atoi fails; else the reader is created
DataHandler ==
    /\ sizeStr # << >>
    /\ reader = << >>
    /\ rerr = "none"
    /\ IF sizeStr.kind = "text"
       THEN /\ rerr' = "invalid size"
            /\ reader' = reader
       ELSE /\ rerr' = rerr
            /\ reader' = newNBytesReader(IF sizeStr.kind = "empty" THEN 0 ELSE sizeStr.val)
    /\ UNCHANGED <<sizeStr, out, plen, reads>>
    /\ UNCHANGED <<ms, term, composed, req, stack, trace, cpc, calls, flagVars, builds, concVars>>
    /\ UNCHANGED <<parserVars, ghostVars>>

\* one round of the loop of io.Copy: Read into its buffer, write what was
\* read to w, stop when Read returned an error (EOF ends the copy)
CopyStep ==
    /\ reader # << >>
    /\ rerr # "EOF"
    /\ \E l \in 1..MaxBuf : ReadCall(l)
    /\ UNCHANGED <<sizeStr, reads>>
    /\ UNCHANGED <<ms, term, composed, req, stack, trace, cpc, calls, flagVars, builds, concVars>>
    /\ UNCHANGED <<parserVars, ghostVars>>

CopyInit ==
    /\ sizeStr \in SizeParams
    /\ reader = << >>
    /\ out = << >>
    /\ rerr = "none"
    /\ plen = 0
    /\ reads = 0
    /\ OtherIdle

CopyNext ==
    \/ DataHandler
    \/ CopyStep

\* the handler runs to its return: io.Copy keeps calling Read
SpecCopy ==
    /\ CopyInit
    /\ [][CopyNext]_vars
    /\ WF_vars(DataHandler)
    /\ WF_vars(CopyStep)

(***************************************************************************)
(* Concurrent invocations of one composed handler: a header or header-out  *)
(* middleware in front of the static handler, built once; the server runs  *)
(* ServeHTTP for two requests at the same time, each with its own          *)
(* *http.Request and http.ResponseWriter.  Every statement records which   *)
(* variables it reads and writes.                                          *)
(***************************************************************************)
Invocations == {1, 2}

\* variables fixed at build time (owner 0) and variables of one invocation
Shared(name) == [name |-> name, owner |-> 0]
Own(name, i) == [name |-> name, owner |-> i]

ReadOf(i, loc) == [inv |-> i, loc |-> loc, mode |-> "read"]
WriteOf(i, loc) == [inv |-> i, loc |-> loc, mode |-> "write"]

\* the server calls the composed handler: the closure chain returned
enterAccess(i) == {ReadOf(i, Shared("chain"))}

\* an iteration that removes the key it visited from the settings map
rangeAccessConsumesConfig(i, kind) ==
    {ReadOf(i, Shared("config")), WriteOf(i, Shared("config")),
     WriteOf(i, Own(IF kind = "header" THEN "r.Header" ELSE "w.Header", i))}

\* one iteration of `for key, value := range config { r.Header.Add(key,
\* value) }` (middleware.go lines 32-34), w.Header().Add for header-out
\* (lines 42-44): config is read, the invocation's own header map written
rangeAccess(i, kind) ==
    {ReadOf(i, Shared("config")),
     WriteOf(i, Own(IF kind = "header" THEN "r.Header" ELSE "w.Header", i))}

\* next(w, r) and staticResponseHandler.ServeHTTP (handler.go lines
\* 125-128): w.WriteHeader(s.code); w.Write(s.body)
staticAccess(i) ==
    {ReadOf(i, Shared("chain")), ReadOf(i, Shared("static.code")),
     ReadOf(i, Shared("static.body")), ReadOf(i, Own("w.Header", i)),
     WriteOf(i, Own("w", i))}

NewInvocation(rhdr) ==
    [pc |-> "new", todo |-> {}, rhdr |-> rhdr, whdr |-> NoHeaders, resp |-> NotServed]

\* the composed handler is entered for invocation i
Invoke(i) ==
    /\ invs.run[i].pc = "new"
    /\ invs' = [invs EXCEPT !.run[i].pc = "range",
                            !.run[i].todo = DOMAIN invs.handler.config]
    /\ accesses' = accesses \cup enterAccess(i)
    /\ UNCHANGED <<ms, term, composed, req, stack, trace, cpc, calls, flagVars, builds, readerVars>>
    /\ UNCHANGED <<parserVars, ghostVars>>

\* one iteration of the range over the settings map, in any order
ConcRange(i) ==
    /\ invs.run[i].pc = "range"
    /\ \E k \in invs.run[i].todo :
          LET v == invs.handler.config[k] IN
          invs' = [invs EXCEPT
                      !.run[i].todo = @ \ {k},
                      !.run[i].rhdr = IF invs.handler.kind = "header"
                                      THEN HeaderAdd(@, k, v) ELSE @,
                      !.run[i].whdr = IF invs.handler.kind = "header-out"
                                      THEN HeaderAdd(@, k, v) ELSE @]
    /\ accesses' = accesses \cup rangeAccess(i, invs.handler.kind)
    /\ UNCHANGED <<ms, term, composed, req, stack, trace, cpc, calls, flagVars, builds, readerVars>>
    /\ UNCHANGED <<parserVars, ghostVars>>

\* the range is over: next(w, r), the static handler writes the response
ConcStatic(i) ==
    /\ invs.run[i].pc = "range"
    /\ invs.run[i].todo = {}
    /\ invs' = [invs EXCEPT
                   !.run[i].resp = [code |-> invs.handler.code, body |-> invs.handler.body,
                                    header |-> invs.run[i].whdr],
                   !.run[i].pc = "done"]
    /\ accesses' = accesses \cup staticAccess(i)
    /\ UNCHANGED <<ms, term, composed, req, stack, trace, cpc, calls, flagVars, builds, readerVars>>
    /\ UNCHANGED <<parserVars, ghostVars>>

ConcInit ==
    /\ \E kind \in {"header", "header-out"}, conf \in HeaderConfigs,
          rh \in [Invocations -> RequestHeaders] :
          invs = [handler |-> [kind |-> kind, config |-> conf,
                               chain |-> chain(<<kind>>, <<"static">>),
                               code |-> staticResponse(NoHeaders).code,
                               body |-> staticResponse(NoHeaders).body],
                  run |-> [i \in Invocations |-> NewInvocation(rh[i])]]
    /\ accesses = {}
    /\ ms = << >>
    /\ term = ""
    /\ composed = << >>
    /\ req = << >>
    /\ stack = << >>
    /\ trace = << >>
    /\ cpc = "idle"
    /\ calls = << >>
    /\ sMiddleware = << >>
    /\ sHandler = ""
    /\ herr = NoError
    /\ builds = << >>
    /\ sizeStr = << >>
    /\ reader = << >>
    /\ out = << >>
    /\ rerr = "none"
    /\ plen = 0
    /\ reads = 0
    /\ ParserIdle

ConcNext ==
    \E i \in Invocations :
        \/ Invoke(i)
        \/ ConcRange(i)
        \/ ConcStatic(i)

SpecConc == ConcInit /\ [][ConcNext]_vars

(***************************************************************************)
(* Claims about the chain builder                                          *)
(***************************************************************************)
Served == cpc = "served"
Built == cpc \in {"ready", "serving", "served"}

\* m0(m1(...mk-1(h)...)), built from the outside in
RECURSIVE Nested(_, _)
Nested(mws, h) ==
    IF mws = << >> THEN h ELSE <<Head(mws)>> \o Nested(Tail(mws), h)

RECURSIVE StartedNames(_)
StartedNames(t) ==
    IF t = << >> THEN << >>
    ELSE (IF t[1].ev = "start" THEN <<t[1].name>> ELSE << >>) \o StartedNames(Tail(t))

\* the middlewares that return without calling next, per request
Declines(m, r) ==
    \/ m = "timeout" /\ r.duration = "invalid"
    \/ m = "json" /\ r.body = "unreadable"

AllForward == \A i \in 1..Len(ms) : ~Declines(ms[i], req)

\* C8: the handler built by chain(m0, ..., mk-1)(h) is m0(m1(...mk-1(h)...)):
\* on a request where every middleware forwards, the middlewares' logic
\* starts in declaration order m0, m1, ..., mk-1 and the terminal handler h
\* runs last, exactly once.
C8_ChainRunsInDeclarationOrder ==
    /\ Built => composed = Nested(ms, <<term>>)
    /\ (Served /\ AllForward) => StartedNames(trace) = ms \o <<term>>

C8_Witness ==
    /\ Served
    /\ AllForward
    /\ ms = <<"log", "json", "timeout">>
    /\ StartedNames(trace) = <<"log", "json", "timeout", term>>

\* C9: the logic of middleware m(i+1) (or of the terminal handler after the
\* last middleware) runs only if m(i) forwards: a component other than the
\* outermost starts only directly after the one before it called next, and
\* when a middleware returned without calling next, no later middleware and
\* not h has run for that request.
C9_RunsOnlyWhenForwarded ==
    /\ \A k \in 1..Len(trace) :
          trace[k].ev = "start" =>
             IF trace[k].depth = 1 THEN k = 1
             ELSE /\ k > 1
                  /\ trace[k - 1].ev = "next"
                  /\ trace[k - 1].depth = trace[k].depth - 1
    /\ \A i \in 1..Len(ms) :
          (Declines(ms[i], req) /\ \A j \in 1..(i - 1) : ~Declines(ms[j], req)) =>
             \A k \in 1..Len(trace) : trace[k].depth <= i

C9_Witness ==
    /\ Served
    /\ ms = <<"log", "timeout", "json">>
    /\ req.duration = "invalid"
    /\ StartedNames(trace) = <<"log", "timeout">>

\* C10: chain called with an empty middleware list returns the terminal
\* handler h itself: the composed handler behaves exactly as h, with nothing
\* run before or after it.
C10_EmptyChainIsHandler ==
    (ms = << >>) =>
        /\ Built => composed = <<term>>
        /\ Served => trace = <<[ev |-> "start", name |-> term, depth |-> 1],
                               [ev |-> "return", name |-> term, depth |-> 1]>>

C10_Witness ==
    /\ Served
    /\ ms = << >>
    /\ composed = <<term>>
    /\ Len(trace) = 2

\* C17: building the pipeline for a step sequence looks up every step
\* except the last only in the middleware registry and the last step only
\* in the handler registry; an unknown name in either position makes the
\* build fail with an error naming that step and produces no handler, so
\* `bogus static` fails naming `bogus` and a handler name in a non-final
\* position is rejected before composition.  The step sequence getHandler
\* is given is the names of s.middleware followed by s.handler.
Resolved == cpc # "resolve"

MiddlewareKeys == {"timeout", "req", "log", "json", "header", "header-out"}
HandlerKeys == {"info", "static", "echo", "proxy", "hec", "data", "fs"}

UnknownSteps ==
    LET steps == sMiddleware \o <<sHandler>> IN
    {i \in 1..Len(steps) :
        IF i < Len(steps) THEN steps[i] \notin MiddlewareKeys
        ELSE steps[i] \notin HandlerKeys}

C17_StepsResolvedByPosition ==
    (Resolved /\ sMiddleware # << >> /\ sHandler # "") =>
        LET steps == sMiddleware \o <<sHandler>> IN
        IF UnknownSteps = {}
        THEN /\ cpc # "failed"
             /\ herr = NoError
             /\ composed = Nested(sMiddleware, <<sHandler>>)
        ELSE /\ cpc = "failed"
             /\ composed = << >>
             /\ herr # NoError
             /\ herr.name = steps[CHOOSE i \in UnknownSteps : \A j \in UnknownSteps : i <= j]

C17_Witness ==
    /\ cpc = "failed"
    /\ sMiddleware = <<"bogus">>
    /\ sHandler = "static"
    /\ herr = [msg |-> "middleware does not exist", name |-> "bogus"]
    /\ composed = << >>

\* C18: an empty or whitespace-only configuration is not an error: Parse
\* returns an empty routing table without error, and building a handler from
\* no configured steps falls back to the built-in default pipeline, a
\* request-logging middleware in front of the static "ok" handler.
C18_EmptyConfigGivesDefaultPipeline ==
    /\ Done =>
          /\ ~ret.failed
          /\ ret.err = NoError
          /\ ~ret.table.nil
          /\ DOMAIN ret.table.m = {}
    /\ Resolved =>
          /\ cpc # "failed"
          /\ herr = NoError
          /\ composed = <<"req", "ok">>
    /\ Served => StartedNames(trace) = <<"req", "ok">>

C18_Witness ==
    /\ Done
    /\ input = <<" ", "\n", "\t", " ">>
    /\ ret.table = Table(EmptyMap)
    /\ Served
    /\ composed = <<"req", "ok">>
    /\ Len(trace) = 5

\* C19: for every registered middleware (timeout, req, log, json, header,
\* header-out) and every request, the middleware invokes next at most once;
\* it invokes next exactly once except when timeout receives an unparsable
\* `duration` parameter or json fails to read the request body.
Started(d) == \E k \in 1..Len(trace) : trace[k].ev = "start" /\ trace[k].depth = d

Finished(d) == \E k \in 1..Len(trace) : trace[k].ev = "return" /\ trace[k].depth = d

C19_NextAtMostOnce ==
    /\ \A d \in 1..Len(calls) : calls[d] <= 1
    /\ \A d \in 1..Len(ms) :
          (d <= Len(calls) /\ Started(d) /\ Finished(d)) =>
             calls[d] = IF \/ ms[d] = "timeout" /\ req.duration = "invalid"
                           \/ ms[d] = "json" /\ req.body = "unreadable"
                        THEN 0 ELSE 1

C19_Witness ==
    /\ Served
    /\ ms = <<"json", "header", "timeout">>
    /\ req = [duration |-> "invalid", body |-> "none"]
    /\ calls = <<1, 1, 0, 0>>

\* C20: building a pipeline twice from the same step sequence, settings and
\* registries yields two composed handlers that, for any request, run the
\* same components in the same order and produce the same response,
\* including the same order of header values added by header and header-out.
C20_SameBuildSameResponse ==
    (builds[1].pc = "done" /\ builds[2].pc = "done") =>
        /\ builds[1].handler = builds[2].handler
        /\ builds[1].ran = builds[2].ran
        /\ builds[1].resp = builds[2].resp
        /\ builds[1].rhdr = builds[2].rhdr

\* C23: during any Parse, on valid and invalid inputs alike, the cursor
\* satisfies 0 <= pos <= len(input) and never decreases, and every byte read
\* or sliced out of the input lies inside it: no word, key or value is the
\* result of an out-of-range slice, including the slice taken when a quoted
\* string closes, and the byte peek reads is at an offset below len(input).
InRange(p) == 0 <= p /\ p <= Len(input)

C23_CursorStaysInRange ==
    [][/\ InRange(pos) /\ InRange(pos')
       /\ pos' >= pos
       /\ peek(input, pos).ok => (pos + 1) \in DOMAIN input
       /\ word' # OutOfRange
       /\ key' # OutOfRange
       /\ \A k \in DOMAIN result' : k # OutOfRange /\ result'[k] # OutOfRange]_vars

C23_Witness ==
    /\ Done
    /\ input = <<"a", " ", QUOTE, QUOTE>>
    /\ pos = Len(input)
    /\ ~ret.failed
    /\ ret.table.m[<<"/">>][2].Name = << >>

\* C24: declaring the same path more than once merges its steps: the steps
\* that follow each declaration of that path are appended, in input order,
\* to the single sequence stored for it, and no step recorded earlier for
\* that path is overwritten or dropped.  On every step of parse() each
\* path's sequence is kept as a prefix, the sequence of the current path
\* grows by at most the step just read, and the table returned is the one
\* built.
IsPrefixOf(s, t) == Len(s) <= Len(t) /\ SubSeq(t, 1, Len(s)) = s

C24_RedeclaredPathMerges ==
    [][/\ \A p \in DOMAIN mappings :
             /\ p \in DOMAIN mappings'
             /\ IsPrefixOf(mappings[p], mappings'[p])
             /\ p # currentPath => mappings'[p] = mappings[p]
       /\ mappings' # mappings =>
             /\ Len(mappings'[currentPath]) = Len(Lookup(mappings, currentPath)) + 1
             /\ mappings'[currentPath][Len(mappings'[currentPath])].Name = word
       /\ (pc' = "done" /\ ~ret'.failed) => ret'.table.m = mappings']_vars

C24_Witness ==
    /\ Done
    /\ ~ret.failed
    /\ Len(input) = 18
    /\ DOMAIN ret.table.m = {<<"/">>, <<"/", "a">>}
    /\ ret.table.m[<<"/", "a">>] = <<HandlerConfig(<<"a">>, [nil |-> TRUE, kv |-> << >>]),
                                     HandlerConfig(<<"b">>, [nil |-> TRUE, kv |-> << >>])>>
    /\ Len(ret.table.m[<<"/">>]) = 1

\* C25: a settings mapping attached to a step by Parse is never empty:
\* every settings block that parses successfully contributes at least one
\* key, and an explicit empty block such as `static{}` is a syntax error.
\* An input made of a bare name, '{', optional spaces and '}' opens with an
\* empty block.
OpensWithEmptyBlock ==
    \E i \in 1..Len(input), j \in 1..Len(input) :
        /\ i < j
        /\ \A n \in 1..(i - 1) : input[n] = "a"
        /\ input[i] = "{"
        /\ \A n \in (i + 1)..(j - 1) : input[n] = " "
        /\ input[j] = "}"

C25_SettingsNeverEmpty ==
    /\ \A p \in DOMAIN mappings : \A i \in 1..Len(mappings[p]) :
          ~mappings[p][i].Settings.nil => DOMAIN mappings[p][i].Settings.kv # {}
    /\ (Done /\ ~ret.failed) =>
          \A p \in DOMAIN ret.table.m : \A i \in 1..Len(ret.table.m[p]) :
             ~ret.table.m[p][i].Settings.nil => DOMAIN ret.table.m[p][i].Settings.kv # {}
    /\ (Done /\ OpensWithEmptyBlock) =>
          /\ ret.failed
          /\ ret.table = NilTable
          /\ ret.err.got = "}"

C25_Witness ==
    /\ Done
    /\ input = <<"a", "{", "}">>
    /\ ret.failed
    /\ ret.err = Error("unexpected at offset expected", 3, "}", ":")

\* C22: for every size N >= 0 and every sequence of Read calls with buffers
\* of any lengths, a reader created by newNBytesReader(N) delivers exactly N
\* bytes in total, all 'A', and then signals EOF, so that copying it to
\* completion yields N bytes and no error: the bytes delivered never exceed
\* N, a Read returns EOF exactly when the N-th byte has been delivered, and
\* a Read with a non-empty buffer that does not return EOF delivers a byte.
C22_ReaderDeliversExactlyN ==
    [][(reader'.n >= 0 /\ reads' = reads + 1) =>
          /\ Len(out') <= reader'.n
          /\ \A i \in 1..Len(out') : out'[i] = "A"
          /\ SubSeq(out', 1, Len(out)) = out
          /\ Len(out') - Len(out) <= plen'
          /\ (rerr' = "EOF") <=> (Len(out') = reader'.n)
          /\ rerr' \in {"nil", "EOF"}
          /\ (plen' > 0 /\ rerr' # "EOF") => Len(out') > Len(out)
          /\ reader'.n = reader.n]_vars

C22_Witness ==
    /\ reader # << >>
    /\ reader.n = MaxSize
    /\ reads = 4
    /\ plen = 0
    /\ out = [i \in 1..MaxSize |-> "A"]
    /\ rerr = "EOF"

\* C26: for every integer that dataHandler accepts from the `size` query
\* parameter, including zero and negative values, the nBytesReader returns
\* EOF after finitely many Read calls with non-empty buffers, so the copy
\* to the response terminates.
C26_CopyTerminates == <>(rerr = "EOF" \/ rerr = "invalid size")

\* C21: concurrent invocations of one composed handler share no mutable
\* state: under any interleaving, no invocation writes a variable that
\* another invocation reads or writes; the state fixed at build time
\* (middleware list, settings mappings, static body and status code) is
\* only read.  Each invocation's headers are then those its own request
\* and the settings give, whatever the other invocation did.
ValuesUnder(conf, ck) == {k \in DOMAIN conf : CanonicalHeaderKey(k) = ck}

C21_NoSharedMutableState ==
    /\ \A a \in accesses : \A b \in accesses :
          (a.inv # b.inv /\ a.loc = b.loc) => (a.mode = "read" /\ b.mode = "read")
    /\ \A a \in accesses : a.loc.owner = 0 => a.mode = "read"
    /\ \A a \in accesses : a.loc.owner # 0 => a.loc.owner = a.inv
    /\ \A i \in Invocations :
          invs.run[i].pc = "done" =>
             /\ invs.run[i].resp.code = 200
             /\ \A ck \in CanonicalKeys :
                   Len(invs.run[i].resp.header[ck]) =
                      IF invs.handler.kind = "header-out"
                      THEN Cardinality(ValuesUnder(invs.handler.config, ck))
                      ELSE 0

C21_Witness ==
    /\ invs.run[1].pc = "range"
    /\ invs.run[2].pc = "range"
    /\ Cardinality(DOMAIN invs.handler.config) = 3
    /\ Cardinality(invs.run[1].todo) = 1
    /\ Cardinality(invs.run[2].todo) = 2
    /\ ReadOf(1, Shared("config")) \in accesses
    /\ ReadOf(2, Shared("config")) \in accesses

====
